---------------------------- MODULE Spec2Model ----------------------------
(***************************************************************************)
(* A model of the MusicVisualizer pipeline: AudioProcessor (the sliding    *)
(* window over the audio buffer and the spectrum normalisation) and        *)
(* Visualizer.update (the detectors, the particle and shockwave            *)
(* collections).                                                           *)
(*                                                                         *)
(* Conventions.                                                            *)
(*  - Floats in [0,1] (amplitudes, spectrum bins, energies, thresholds)    *)
(*    are fixed-point integers in thousandths (Scale); NaN is the value    *)
(*    NaN, it propagates through arithmetic and makes every comparison     *)
(*    false, as IEEE-754 does.                                             *)
(*  - The clock counts frames: self.time is time/60 seconds.  A cooldown   *)
(*    comparison whose two sides are equal in exact arithmetic is decided  *)
(*    by floating-point rounding in the code and may go either way; the    *)
(*    model takes both outcomes.                                           *)
(*  - Particle life is counted in 1/6000 s (LifeScale), so dt is 100.      *)
(*  - librosa.stft / amplitude_to_db, the random source and the content    *)
(*    of the audio file are inputs: the decibel matrix of a window, the    *)
(*    window's mean amplitude and the random draws come from small sets.   *)
(*  - Of the drawing calls the model keeps the order in which update       *)
(*    issues them and whether they raise and so end the frame early.       *)
(*  - frame holds the locals of the latest update call, and with them a    *)
(*    few counts over the frames before it that the properties read.       *)
(***************************************************************************)
EXTENDS Integers, Sequences, FiniteSets

VARIABLES
    audio_kind,          \* content class of AudioProcessor.audio_data
    audio_len,           \* len(AudioProcessor.audio_data)
    current_position,    \* AudioProcessor.current_position
    last_chunk,          \* value returned by the latest get_waveform call
    time,                \* Visualizer.time, in frames (1/60 s)
    last_beat_time,      \* Visualizer.last_beat_time, in frames
    prev_amp,            \* Visualizer.prev_amp
    prev_bass_energy,    \* Visualizer.prev_bass_energy
    last_drop_time,      \* Visualizer.last_drop_time, in frames
    prev_treble_energy,  \* Visualizer.prev_treble_energy
    beat_scale,          \* Visualizer.beat_scale
    clap_flatten_frames, \* Visualizer.clap_flatten_frames
    clap_flatten_total,  \* Visualizer.clap_flatten_total
    particles,           \* Visualizer.particles
    shockwaves,          \* Visualizer.shockwaves
    screen,              \* Visualizer.screen_width, Visualizer.screen_height
    event,               \* what the main loop did last
    frame                \* what the latest update call did (its locals)

vars == <<audio_kind, audio_len, current_position, last_chunk, time,
          last_beat_time, prev_amp, prev_bass_energy, last_drop_time,
          prev_treble_energy, beat_scale, clap_flatten_frames,
          clap_flatten_total, particles, shockwaves, screen, event, frame>>

procVars == <<audio_kind, audio_len, current_position, last_chunk>>

visVars == <<time, last_beat_time, prev_amp, prev_bass_energy,
             last_drop_time, prev_treble_energy, beat_scale,
             clap_flatten_frames, clap_flatten_total, particles,
             shockwaves, screen, event, frame>>

---------------------------------------------------------------------------
(* Numbers *)

Scale == 1000

NaN == -999999

Min2(a, b) == IF a <= b THEN a ELSE b

Max2(a, b) == IF a >= b THEN a ELSE b

IsNaN(a) == a = NaN

\* a - b on floats
FSub(a, b) == IF IsNaN(a) \/ IsNaN(b) THEN NaN ELSE a - b

\* Faulty variant of FGt: written as "not (a <= b)", which is true of NaN
FGt_not_le(a, b) == IsNaN(a) \/ IsNaN(b) \/ a > b

\* a > b on floats: false when either side is NaN
FGt(a, b) == ~IsNaN(a) /\ ~IsNaN(b) /\ a > b

RECURSIVE SumSeq(_)
SumSeq(s) == IF s = <<>> THEN 0 ELSE Head(s) + SumSeq(Tail(s))

\* np.mean of a non-empty array
Mean(s) ==
    IF \E i \in 1..Len(s) : IsNaN(s[i]) THEN NaN ELSE SumSeq(s) \div Len(s)

---------------------------------------------------------------------------
(* AudioProcessor *)

chunk_size == 2048

hop_length == 512

NoChunk == [none |-> TRUE, start |-> 0, len |-> 0]

\* Faulty variant of get_waveform: the window is hop_length samples long
get_waveform_hop_window(pos, n) ==
    IF pos >= n
    THEN [chunk |-> NoChunk, pos |-> pos]
    ELSE LET end_pos == Min2(pos + hop_length, n)
             advanced == pos + hop_length
         IN [chunk |-> [none |-> FALSE, start |-> pos, len |-> end_pos - pos],
             pos |-> IF advanced >= n THEN 0 ELSE advanced]

\* Faulty variant of get_waveform: the cursor wraps only once it is past the end
get_waveform_late_wrap(pos, n) ==
    IF pos >= n
    THEN [chunk |-> NoChunk, pos |-> pos]
    ELSE LET end_pos == Min2(pos + chunk_size, n)
             advanced == pos + hop_length
         IN [chunk |-> [none |-> FALSE, start |-> pos, len |-> end_pos - pos],
             pos |-> IF advanced > n THEN 0 ELSE advanced]

\* get_waveform at cursor pos of a buffer of n samples: the returned chunk
\* (None, or the slice [start, start+len)) and the new cursor.
get_waveform(pos, n) ==
    IF pos >= n
    THEN [chunk |-> NoChunk, pos |-> pos]
    ELSE LET end_pos == Min2(pos + chunk_size, n)
             advanced == pos + hop_length
         IN [chunk |-> [none |-> FALSE, start |-> pos, len |-> end_pos - pos],
             pos |-> IF advanced >= n THEN 0 ELSE advanced]

---------------------------------------------------------------------------
(* Spectral analyzer: AudioProcessor.get_spectrum *)

target_length == 128

\* Rows of librosa.stft(chunk, n_fft=chunk_size): 1 + n_fft/2 frequency bins.
NBins == 1 + chunk_size \div 2

\* Columns of librosa.stft(chunk, hop_length=hop_length), centred frames.
NumFrames(len) == 1 + len \div hop_length

MaxNumFrames == NumFrames(chunk_size)

\* amplitude_to_db(S, ref=np.max) keeps every entry within top_db of the
\* maximum, which is 0 dB.
top_db == 80

\* The decibel matrices a window can have are inputs.  A matrix is described
\* by the level of four frequency bands and by how much quieter the
\* even-numbered time frames are (fade).
DbShape(b, m, h, t, fd) ==
    [bass |-> b, mid |-> m, high |-> h, treble |-> t, fade |-> fd]

BandLevel(shape, f) ==
    LET o == (f * (target_length - 1)) \div NBins
    IN IF o < 12 THEN shape.bass
       ELSE IF o < 89 THEN shape.mid
       ELSE IF o < 102 THEN shape.high
       ELSE shape.treble

\* S_db[f][t], f in 0..NBins-1, t in 1..nf
S_db(shape, f, t) ==
    Max2(0 - top_db, BandLevel(shape, f) - (IF t % 2 = 0 THEN shape.fade ELSE 0))

DbValues(shape, nf) ==
    UNION { {S_db(shape, f, 1), S_db(shape, f, Min2(2, nf))} : f \in 0..(NBins - 1) }

SetMax(S) == CHOOSE x \in S : \A y \in S : y <= x

SetMin(S) == CHOOSE x \in S : \A y \in S : x <= y

\* (S_db - S_db.min()) / (S_db.max() - S_db.min()): 0/0 is NaN
Normalize(v, mn, mx) ==
    IF mx = mn THEN NaN ELSE ((v - mn) * Scale) \div (mx - mn)

\* np.mean(S_norm, axis=1)
MeanOverTime(shape, nf) ==
    LET mn == SetMin(DbValues(shape, nf))
        mx == SetMax(DbValues(shape, nf))
    IN [f \in 0..(NBins - 1) |->
          Mean([t \in 1..nf |-> Normalize(S_db(shape, f, t), mn, mx)])]

\* np.interp(np.linspace(0, len(spectrum), target_length),
\*           np.arange(len(spectrum)), spectrum), 1-indexed result
Resize(spec, n) ==
    [j \in 1..target_length |->
        LET num == (j - 1) * n
            i0 == num \div (target_length - 1)
            rem == num % (target_length - 1)
        IN IF i0 >= n - 1 THEN spec[n - 1]
           ELSE IF IsNaN(spec[i0]) \/ IsNaN(spec[i0 + 1]) THEN NaN
           ELSE spec[i0] + ((spec[i0 + 1] - spec[i0]) * rem) \div (target_length - 1)]

\* The spectrum get_spectrum computes from a chunk whose stft has nf frames
\* and the decibel matrix shape.
SpectrumOf(shape, nf) ==
    LET spectrum == MeanOverTime(shape, nf)
    IN IF NBins > target_length THEN Resize(spectrum, NBins)
       ELSE [j \in 1..NBins |-> spectrum[j - 1]]

---------------------------------------------------------------------------
(* Visualizer: constants set by __init__ and by Main *)

screen_width == 1280

screen_height == 720

\* The display size Main finds when it switches to fullscreen
fullscreen_width == 2560

fullscreen_height == 1440

\* Visualizer(audio_processor, screen_width, screen_height) is built with the
\* size of the window, or of the display when the f key was pressed before
\* the file was dropped.
Screens ==
    { [width |-> screen_width, height |-> screen_height],
      [width |-> fullscreen_width, height |-> fullscreen_height] }

beat_threshold == 180

beat_cooldown == 180

drop_threshold == 320

drop_cooldown == 700

treble_threshold == 220

clap_amp_threshold == 100

clap_high_threshold == 350

\* frames per second of the fixed time step dt = 1/60
FPS == 60

\* (self.time - last) > cooldown, with self.time - last = d frames and the
\* cooldown in thousandths of a second.  When the two sides are equal in exact
\* arithmetic the floating-point sum of d steps of 1/60 decides; rounding is
\* the outcome it takes then.
CooldownOver(d, cooldown, rounding) ==
    IF d * Scale = cooldown * FPS THEN rounding ELSE d * Scale > cooldown * FPS

\* The outcomes the comparison of detect_bass_drop can take d frames after the
\* last drop: either one when the two sides are equal in exact arithmetic
\* (the beat cooldown, 10.8 frames, never is), and otherwise the exact one,
\* which CooldownOver computes without reading rounding.
Roundings(d) ==
    IF d * Scale = drop_cooldown * FPS THEN BOOLEAN ELSE {FALSE}

\* spectrum[a:b] of a Python slice, on the 1-indexed bins
Slice(bins, a, b) == SubSeq(bins, a + 1, b)

\* int(len(spectrum) * percent / 100)
IntFrac(n, percent) == (n * percent) \div 100

---------------------------------------------------------------------------
(* Shockwaves *)

\* trigger_shockwave on a screen of the size scr: the record appended; alpha
\* in thousandths
NewShockwaveOn(bass_energy, scr) ==
    [radius |-> 80,
     max_radius |-> (Min2(scr.width, scr.height) * 7) \div 10,
     alpha |-> 180 * Scale,
     width |-> 16 + (bass_energy * 24) \div Scale]

\* trigger_shockwave in the window Main opens
NewShockwave(bass_energy) ==
    NewShockwaveOn(bass_energy, [width |-> screen_width, height |-> screen_height])

\* Faulty variant of IntegrateShockwave: the width has no floor
IntegrateShockwave_no_floor(s) ==
    [s EXCEPT !.radius = @ + 18,
              !.alpha = (@ * 93) \div 100,
              !.width = (@ * 97) \div 100]

\* Faulty variant of IntegrateShockwave: alpha fades by 0.95 a step
IntegrateShockwave_slow_fade(s) ==
    [s EXCEPT !.radius = @ + 18,
              !.alpha = (@ * 95) \div 100,
              !.width = Max2(2, (@ * 97) \div 100)]

\* s['radius'] += 18 * dt * 60; s['alpha'] *= 0.93;
\* s['width'] = max(2, int(s['width'] * 0.97))
IntegrateShockwave(s) ==
    [s EXCEPT !.radius = @ + 18,
              !.alpha = (@ * 93) \div 100,
              !.width = Max2(2, (@ * 97) \div 100)]

\* Faulty variant of ShockwaveGone: a faded shockwave stays
ShockwaveGone_radius_only(s) == s.radius > s.max_radius

\* if s['radius'] > s['max_radius'] or s['alpha'] < 8
ShockwaveGone(s) == s.radius > s.max_radius \/ s.alpha < 8 * Scale

\* update_shockwaves(dt)
update_shockwaves(ss) ==
    LET stepped == [i \in 1..Len(ss) |-> IntegrateShockwave(ss[i])]
        Keep(s) == ~ShockwaveGone(s)
    IN SelectSeq(stepped, Keep)

---------------------------------------------------------------------------
(* Particles *)

LifeScale == 6000

\* dt = 1/60 s in life units
DtLife == LifeScale \div FPS

\* Samples of random.uniform(lo, hi) for the life of a particle of each kind,
\* in life units.  A life that is a whole number of frames is removed at a
\* step floating-point rounding decides; of those only 1.0 s is sampled,
\* which 60 subtractions of 1/60 bring to -1.4e-15.
LifeSamples(type) ==
    IF type = "normal" THEN <<4230, 6000, 7170>>
    ELSE IF type = "comet" THEN <<4230, 7770>>
    ELSE IF type = "orbit" THEN <<15030, 26970>>
    ELSE <<1830, 3570>>

\* random.randint(a, b): the samples are the two ends of the range
randint(a, b) == {a, b}

\* The two draws of a bass drop, random.randint(40, 64) normal particles and
\* random.randint(6, 10) comets: both at the low end or both at the high end
DropDraws ==
    {<<lo, hi>> \in randint(40, 64) \X randint(6, 10) : (lo = 40) = (hi = 6)}

NewParticle(type, i) ==
    LET ls == LifeSamples(type)
    IN [type |-> type, life |-> ls[1 + (i % Len(ls))], age |-> 0]

\* Faulty variant of add_particles: one particle too many
add_particles_one_more(ps, n, type) ==
    ps \o [i \in 1..(n + 1) |-> NewParticle(type, i)]

\* add_particles(n, color, type): n particles appended
add_particles(ps, n, type) ==
    ps \o [i \in 1..n |-> NewParticle(type, i)]

IntegrateParticle(p) == [p EXCEPT !.life = @ - DtLife, !.age = @ + 1]

\* Faulty variant of ParticleDead: a particle whose life is exactly 0 stays
ParticleDead_below_zero(p) == p.life < 0

\* if p['life'] <= 0: self.particles.remove(p)
ParticleDead(p) == p.life <= 0

\* update_particles(dt)
update_particles(ps) ==
    LET stepped == [i \in 1..Len(ps) |-> IntegrateParticle(ps[i])]
        Alive(p) == ~ParticleDead(p)
    IN SelectSeq(stepped, Alive)

---------------------------------------------------------------------------
(* Inputs: the tracks, and what a window of each track analyses to *)

\* Frames simulated on each kind of track
SilentFrames == 180

BassFrames == 85

BeatFrames == 26

TrebleFrames == 5

MixedFrames == 3

ClapFrames == 271

FrameBound(kind) ==
    IF kind = "silent" THEN SilentFrames
    ELSE IF kind = "bass" THEN BassFrames
    ELSE IF kind = "beat" THEN BeatFrames
    ELSE IF kind = "treble" THEN TrebleFrames
    ELSE IF kind = "clap" THEN ClapFrames
    ELSE MixedFrames

\* Samples at 44100 Hz of a 3 s track
SilentLen == 132300

\* A short track whose last windows are tails
ShortLen == 5000

\* AudioProcessor(audio_data, sample_rate) is built on one of these buffers:
\* an empty one, silence, music of four kinds, and a steady hiss whose
\* loudness changes (clap).
Tracks ==
    { [kind |-> "empty", len |-> 0],
      [kind |-> "silent", len |-> SilentLen],
      [kind |-> "bass", len |-> ShortLen],
      [kind |-> "beat", len |-> ShortLen],
      [kind |-> "treble", len |-> ShortLen],
      [kind |-> "mixed", len |-> ShortLen],
      [kind |-> "clap", len |-> ShortLen] }

FlatShape == DbShape(0, 0, 0, 0, 0)

\* Decibel matrices of the windows of a track of each kind
Shapes(kind) ==
    IF kind = "silent" \/ kind = "empty" THEN {FlatShape}
    ELSE IF kind = "bass"
         THEN {DbShape(b, 0, -80, -80, 0) : b \in {-80, -40}}
    ELSE IF kind = "beat"
         THEN {DbShape(b, 0, -80, -80, 0) : b \in {-80, -60, -40}}
    ELSE IF kind = "treble"
         THEN {DbShape(-80, 0, -80, t, 0) : t \in {-80, 0}}
    ELSE IF kind = "clap"
         THEN {DbShape(-80, 0, -80, 0, 0)}
    ELSE {FlatShape}
         \cup {DbShape(b, 0, -80, t, 20) : b \in {-80, -40}, t \in {-80, 0}}

\* np.abs(waveform).mean() of the windows of a track of each kind
Amps(kind) ==
    IF kind = "silent" \/ kind = "empty" THEN {0}
    ELSE IF kind = "bass" \/ kind = "beat" THEN {300}
    ELSE {50, 150}

AllShapes == UNION {Shapes(tr.kind) : tr \in Tracks}

SpectrumTable ==
    [shape \in AllShapes |-> [nf \in 1..MaxNumFrames |-> SpectrumOf(shape, nf)]]

\* np.mean(spectrum[:bass_end]) if ... len(spectrum) > 0 else 0, with
\* bass_end = max(1, int(len(spectrum) * 0.10))
BassEnergyOfBins(bins) ==
    IF Len(bins) = 0 THEN 0
    ELSE Mean(Slice(bins, 0, Max2(1, IntFrac(Len(bins), 10))))

\* np.mean(spectrum[int(len(spectrum) * 0.8):])
TrebleEnergyOfBins(bins) ==
    IF Len(bins) = 0 THEN NaN
    ELSE Mean(Slice(bins, IntFrac(Len(bins), 80), Len(bins)))

\* np.mean(spectrum[int(n * 0.7):])
HighFreqEnergyOfBins(bins) ==
    IF Len(bins) = 0 THEN NaN
    ELSE Mean(Slice(bins, IntFrac(Len(bins), 70), Len(bins)))

HasNaN(bins) == \E i \in 1..Len(bins) : IsNaN(bins[i])

\* What the detectors read of each spectrum get_spectrum can return
EnergyTable ==
    [shape \in AllShapes |-> [nf \in 1..MaxNumFrames |->
        LET bins == SpectrumTable[shape][nf]
        IN [len |-> Len(bins),
            bass |-> BassEnergyOfBins(bins),
            treble |-> TrebleEnergyOfBins(bins),
            high |-> HighFreqEnergyOfBins(bins),
            nan |-> HasNaN(bins)]]]

\* A spectrum is None or the one computed from (shape, nf)
NoSpectrum == [none |-> TRUE, shape |-> FlatShape, nf |-> 1]

Bins(spectrum) ==
    IF spectrum.none THEN <<>> ELSE SpectrumTable[spectrum.shape][spectrum.nf]

Energies(spectrum) == EnergyTable[spectrum.shape][spectrum.nf]

Absent(spectrum) == spectrum.none \/ Energies(spectrum).len = 0

BassEnergy(spectrum) ==
    IF spectrum.none THEN 0 ELSE Energies(spectrum).bass

TrebleEnergy(spectrum) == Energies(spectrum).treble

HighFreqEnergy(spectrum) == Energies(spectrum).high

\* get_spectrum, given the chunk its get_waveform call returned and the
\* decibel matrix librosa computes for that chunk
get_spectrum(chunk, shape) ==
    IF chunk.none THEN NoSpectrum
    ELSE [none |-> FALSE, shape |-> shape, nf |-> NumFrames(chunk.len)]

---------------------------------------------------------------------------
(* Detectors *)

\* Faulty variant of detect_beat: a rise refused by the cooldown is kept for
\* later, the stored energy is not updated by that call
detect_beat_deferred(spectrum, prev, t, last, rounding) ==
    LET bass_energy == BassEnergy(spectrum)
        rise == FGt(FSub(bass_energy, prev), beat_threshold)
        beat == rise /\ CooldownOver(t - last, beat_cooldown, rounding)
    IN [beat |-> beat,
        last_beat_time |-> IF beat THEN t ELSE last,
        prev_amp |-> IF rise /\ ~beat THEN prev ELSE bass_energy]

\* detect_beat with self.time = t, self.prev_amp = prev, self.last_beat_time = last
detect_beat(spectrum, prev, t, last, rounding) ==
    LET bass_energy == BassEnergy(spectrum)
        beat == /\ FGt(FSub(bass_energy, prev), beat_threshold)
                /\ CooldownOver(t - last, beat_cooldown, rounding)
    IN [beat |-> beat,
        last_beat_time |-> IF beat THEN t ELSE last,
        prev_amp |-> bass_energy]

\* Faulty variant of detect_bass_drop: it waits for the beat cooldown only
detect_bass_drop_beat_cooldown(spectrum, prev, t, last, rounding) ==
    LET bass_energy == BassEnergy(spectrum)
        drop == /\ FGt(FSub(bass_energy, prev), drop_threshold)
                /\ CooldownOver(t - last, beat_cooldown, rounding)
    IN [drop |-> drop,
        bass_energy |-> bass_energy,
        last_drop_time |-> IF drop THEN t ELSE last,
        prev_bass_energy |-> bass_energy]

\* detect_bass_drop on a spectrum that is not None (len(None) raises)
detect_bass_drop(spectrum, prev, t, last, rounding) ==
    LET bass_energy == BassEnergy(spectrum)
        drop == /\ FGt(FSub(bass_energy, prev), drop_threshold)
                /\ CooldownOver(t - last, drop_cooldown, rounding)
    IN [drop |-> drop,
        bass_energy |-> bass_energy,
        last_drop_time |-> IF drop THEN t ELSE last,
        prev_bass_energy |-> bass_energy]

\* detect_treble_burst; prev is 0 until the attribute is first set
detect_treble_burst(spectrum, prev) ==
    IF Absent(spectrum)
    THEN [burst |-> FALSE, prev_treble_energy |-> prev]
    ELSE LET treble_energy == TrebleEnergy(spectrum)
         IN [burst |-> FGt(FSub(treble_energy, prev), treble_threshold),
             prev_treble_energy |-> treble_energy]

\* Faulty variant of detect_clap: the amplitude must exceed 0.20
detect_clap_louder(waveform, amp, spectrum) ==
    IF waveform.none \/ spectrum.none THEN FALSE
    ELSE /\ FGt(amp, 2 * clap_amp_threshold)
         /\ FGt(HighFreqEnergy(spectrum), clap_high_threshold)

\* detect_clap; amp is np.abs(waveform).mean()
detect_clap(waveform, amp, spectrum) ==
    IF waveform.none \/ spectrum.none THEN FALSE
    ELSE /\ FGt(amp, clap_amp_threshold)
         /\ FGt(HighFreqEnergy(spectrum), clap_high_threshold)

\* get_connotation_color yields a NaN hue when the spectrum holds NaN, and
\* colorsys.hsv_to_rgb then raises on int(h * 6.0): draw_background raises.
HueIsNaN(spectrum) == ~Absent(spectrum) /\ Energies(spectrum).nan

---------------------------------------------------------------------------
(* Visualizer.update *)

\* self.clap_flatten_frames = 12; self.clap_flatten_total = 12
clap_flatten_length == 12

\* Faulty variant of ClapFlattenStep: the countdown runs on below 0
ClapFlattenStep_no_stop(clap, remaining) ==
    IF clap THEN clap_flatten_length ELSE remaining - 1

\* The clap branch of update: the new value of clap_flatten_frames
ClapFlattenStep(clap, remaining) ==
    IF clap THEN clap_flatten_length
    ELSE IF remaining > 0 THEN remaining - 1
    ELSE remaining

\* Faulty variant of DrawPhases: the particles are drawn last
DrawPhases_particles_last(raised) ==
    IF raised = "none"
    THEN <<"background", "shockwaves", "blob", "waveform", "particles">>
    ELSE <<"background">>

\* The draw phases update enters, in order, when the call named by raised
\* raises ("none": no call does).  update_shockwaves and update_particles
\* draw while they integrate; draw_spectrum has no caller.
DrawPhases(raised) ==
    IF raised = "none"
    THEN <<"background", "shockwaves", "particles", "blob", "waveform">>
    ELSE <<"background">>

\* 4.5 s, the longest life add_particles draws, in life units
MaxSpawnLife == 27000

\* Frames in which a particle of the longest life is removed
MaxLifeFrames == MaxSpawnLife \div DtLife

\* Consecutive clap frames counted
ClapRunCap == 20

\* Whether a rise above a detector's threshold was refused by its cooldown and
\* the energy has not changed since: was is the value before this frame, prev
\* and energy the bass energy of the frame before and of this one, fired the
\* outcome of the detector.
Lost(was, prev, energy, threshold, fired) ==
    IF fired THEN FALSE
    ELSE IF FGt(FSub(energy, prev), threshold) THEN TRUE
    ELSE IF energy = prev THEN was
    ELSE FALSE

\* The locals of update; the last five fields count over earlier frames:
\* clap_run the consecutive frames up to this one with a clap, since_clap the
\* frames since the last clap, quiet the consecutive frames up to this one
\* that completed without beat, drop or burst, beat_lost and drop_lost as
\* Lost computes them.
NoFrame ==
    [raised |-> "none", waveform |-> NoChunk, spec_none |-> TRUE,
     shape |-> FlatShape, amp |-> 0, clap |-> FALSE, beat |-> FALSE,
     beat_again |-> FALSE, drop |-> FALSE, burst |-> FALSE,
     bass_energy |-> 0, beat_gap |-> 0, drop_gap |-> 0,
     new_shockwaves |-> <<>>, drop_normal |-> 0, drop_comet |-> 0,
     beat_normal |-> 0, beat_orbit |-> 0, burst_starburst |-> 0,
     integrated |-> FALSE, blob_drawn |-> FALSE, drop_scale |-> Scale,
     draws |-> <<>>, clap_run |-> 0, since_clap |-> clap_flatten_length + 1,
     quiet |-> 0, beat_lost |-> FALSE, drop_lost |-> FALSE]

\* What the main loop did last, and the clock of the Visualizer it found
Event(name, clock) == [name |-> name, clock |-> clock]

\* The state after AudioProcessor(audio_data, sample_rate) and
\* Visualizer(audio_processor, screen_width, screen_height)
Constructed(track) ==
    /\ audio_kind = track.kind
    /\ audio_len = track.len
    /\ current_position = 0
    /\ last_chunk = NoChunk
    /\ time = 0
    /\ last_beat_time = 0
    /\ prev_amp = 0
    /\ prev_bass_energy = 0
    /\ last_drop_time = 0
    /\ prev_treble_energy = 0
    /\ beat_scale = Scale
    /\ clap_flatten_frames = 0
    /\ clap_flatten_total = 0
    /\ particles = <<>>
    /\ shockwaves = <<>>
    /\ frame = NoFrame

\* Main: the file is dropped on the window or on the fullscreen display
ConstructedOn(track, scr) ==
    /\ Constructed(track)
    /\ screen = scr
    /\ event = Event("init", 0)

Init == \E track \in Tracks, scr \in Screens : ConstructedOn(track, scr)

\* The part of update after draw_background, on a spectrum that is not None:
\* lines 537-586.  A value bound by \E over a singleton is computed once.
UpdateTail(t, spectrum, rounding, fr) ==
    \E d \in {detect_bass_drop(spectrum, prev_bass_energy, t, last_drop_time, rounding)} :
       \E draw \in (IF d.drop THEN DropDraws ELSE {<<0, 0>>}) :
       LET n_drop == draw[1]
           n_comet == draw[2]
           created == IF d.drop THEN <<NewShockwaveOn(d.bass_energy, screen)>>
                      ELSE <<>>
           ps1 == add_particles(add_particles(particles, n_drop, "normal"),
                                n_comet, "comet")
           drop_scale == IF d.drop
                         THEN 1250 + Min2(500, d.bass_energy)
                         ELSE Scale
       IN \E b2 \in {detect_beat(spectrum, fr.prev_amp, t, fr.last_beat_time,
                                 rounding)},
             tb \in {detect_treble_burst(spectrum, prev_treble_energy)} :
          \E n_beat \in (IF b2.beat THEN randint(24, 40) ELSE {0}),
             n_orbit \in (IF b2.beat THEN randint(3, 6) ELSE {0}) :
          LET ps2 == add_particles(add_particles(ps1, n_beat, "normal"),
                                   n_orbit, "orbit")
          IN \E n_star \in (IF tb.burst THEN randint(16, 28) ELSE {0}) :
             /\ last_drop_time' = d.last_drop_time
             /\ prev_bass_energy' = d.prev_bass_energy
             /\ shockwaves' = update_shockwaves(shockwaves \o created)
             /\ last_beat_time' = b2.last_beat_time
             /\ prev_amp' = b2.prev_amp
             /\ prev_treble_energy' = tb.prev_treble_energy
             /\ \E ps3 \in {add_particles(ps2, n_star, "starburst")} :
                   particles' = update_particles(ps3)
             /\ frame' = [fr.rec EXCEPT
                            !.drop = d.drop,
                            !.drop_gap = IF d.drop /\ last_drop_time > 0
                                         THEN t - last_drop_time ELSE 0,
                            !.bass_energy = d.bass_energy,
                            !.new_shockwaves = created,
                            !.drop_normal = n_drop,
                            !.drop_comet = n_comet,
                            !.beat_again = b2.beat,
                            !.beat_normal = n_beat,
                            !.beat_orbit = n_orbit,
                            !.burst = tb.burst,
                            !.burst_starburst = n_star,
                            !.integrated = TRUE,
                            !.blob_drawn = TRUE,
                            !.drop_scale = drop_scale,
                            !.quiet = IF fr.rec.beat \/ d.drop \/ b2.beat \/ tb.burst
                                      THEN 0
                                      ELSE Min2(frame.quiet + 1, MaxLifeFrames),
                            !.drop_lost = Lost(frame.drop_lost, frame.bass_energy,
                                               d.bass_energy, drop_threshold,
                                               d.drop)]

\* update(screen): one frame
Update ==
    /\ time < FrameBound(audio_kind)
    /\ \E amp_in \in Amps(audio_kind), shape \in Shapes(audio_kind),
          rounding \in Roundings(time + 1 - last_drop_time) :
       LET t == time + 1
           w == get_waveform(current_position, audio_len)
           waveform == w.chunk
           amp == IF waveform.none THEN 0 ELSE amp_in
       IN \E c \in {get_waveform(w.pos, audio_len)} :
          \E spectrum \in {get_spectrum(c.chunk, shape)} :
          \E clap \in {detect_clap(waveform, amp, spectrum)} :
          \E b1 \in {detect_beat(spectrum, prev_amp, t, last_beat_time, rounding)} :
          \E raised \in {IF HueIsNaN(spectrum) THEN "draw_background"
                         ELSE IF spectrum.none THEN "detect_bass_drop"
                         ELSE "none"} :
          \E rec \in {[NoFrame EXCEPT
                         !.raised = raised,
                         !.waveform = waveform,
                         !.spec_none = spectrum.none,
                         !.shape = shape,
                         !.amp = amp,
                         !.clap = clap,
                         !.beat = b1.beat,
                         !.bass_energy = BassEnergy(spectrum),
                         !.beat_gap = IF b1.beat /\ last_beat_time > 0
                                      THEN t - last_beat_time ELSE 0,
                         !.draws = DrawPhases(raised),
                         !.clap_run = IF clap
                                      THEN Min2(frame.clap_run + 1, ClapRunCap)
                                      ELSE 0,
                         !.since_clap = IF clap THEN 0
                                        ELSE Min2(frame.since_clap + 1,
                                                  clap_flatten_length + 1),
                         !.beat_lost = Lost(frame.beat_lost, frame.bass_energy,
                                            BassEnergy(spectrum), beat_threshold,
                                            b1.beat),
                         !.drop_lost = frame.drop_lost]} :
          /\ time' = t
          /\ current_position' = c.pos
          /\ last_chunk' = c.chunk
          /\ event' = Event("update", 0)
          /\ UNCHANGED <<audio_kind, audio_len, screen>>
          /\ clap_flatten_frames' = ClapFlattenStep(clap, clap_flatten_frames)
          /\ clap_flatten_total' =
                IF clap THEN clap_flatten_length ELSE clap_flatten_total
          /\ beat_scale' =
                IF b1.beat THEN 1180
                ELSE beat_scale + ((Scale - beat_scale) * 15) \div 100
          /\ IF raised = "none"
             THEN \E fr \in {[rec |-> rec, prev_amp |-> b1.prev_amp,
                              last_beat_time |-> b1.last_beat_time]} :
                     UpdateTail(t, spectrum, rounding, fr)
             ELSE /\ last_beat_time' = b1.last_beat_time
                  /\ prev_amp' = b1.prev_amp
                  /\ frame' = rec
                  /\ UNCHANGED <<prev_bass_energy, last_drop_time,
                                 prev_treble_energy, particles, shockwaves>>

Next == Update

Spec == Init /\ [][Next]_vars

---------------------------------------------------------------------------
(* AudioProcessor.get_waveform called on its own, on buffers of every length *)

MaxBufLen == 4200

Window == [width |-> screen_width, height |-> screen_height]

InitProc ==
    \E n \in 0..MaxBufLen : ConstructedOn([kind |-> "mixed", len |-> n], Window)

GetWaveformCall ==
    LET r == get_waveform(current_position, audio_len)
    IN /\ current_position' = r.pos
       /\ last_chunk' = r.chunk
       /\ UNCHANGED <<audio_kind, audio_len>>
       /\ UNCHANGED visVars

NextProc == GetWaveformCall

SpecProc == InitProc /\ [][NextProc]_vars

---------------------------------------------------------------------------
(* Visualizer.add_particles and update_particles called on their own *)

ParticleKinds == {"normal", "starburst", "orbit", "comet"}

\* Particles per add_particles call, and calls per run
MaxBatch == 2

MaxBatches == 2

\* add_particles(n, color, type); a further batch is added before the
\* earlier ones have been integrated
AddParticles ==
    /\ Len(particles) <= (MaxBatches - 1) * MaxBatch
    /\ \A i \in 1..Len(particles) : particles[i].age = 0
    /\ \E n \in 1..MaxBatch, type \in ParticleKinds :
          particles' = add_particles(particles, n, type)
    /\ UNCHANGED procVars
    /\ UNCHANGED <<time, last_beat_time, prev_amp, prev_bass_energy,
                   last_drop_time, prev_treble_energy, beat_scale,
                   clap_flatten_frames, clap_flatten_total, shockwaves,
                   screen, event, frame>>

\* update_particles(dt)
UpdateParticles ==
    /\ particles # <<>>
    /\ particles' = update_particles(particles)
    /\ UNCHANGED procVars
    /\ UNCHANGED <<time, last_beat_time, prev_amp, prev_bass_energy,
                   last_drop_time, prev_treble_energy, beat_scale,
                   clap_flatten_frames, clap_flatten_total, shockwaves,
                   screen, event, frame>>

NextParticles == AddParticles \/ UpdateParticles

SpecParticles ==
    ConstructedOn([kind |-> "mixed", len |-> ShortLen], Window)
        /\ [][NextParticles]_vars

---------------------------------------------------------------------------
(* Visualizer.trigger_shockwave and update_shockwaves called on their own *)

\* Shockwaves active at once
MaxWaves == 2

\* bass_energy of the drop that triggers a shockwave
ShockBass == {0, 500, 1000}

\* trigger_shockwave(bass_energy, amp, spectrum)
TriggerShockwave ==
    /\ Len(shockwaves) < MaxWaves
    /\ \E bass_energy \in ShockBass :
          shockwaves' = Append(shockwaves, NewShockwaveOn(bass_energy, screen))
    /\ UNCHANGED procVars
    /\ UNCHANGED <<time, last_beat_time, prev_amp, prev_bass_energy,
                   last_drop_time, prev_treble_energy, beat_scale,
                   clap_flatten_frames, clap_flatten_total, particles,
                   screen, event, frame>>

\* update_shockwaves(dt)
UpdateShockwaves ==
    /\ shockwaves # <<>>
    /\ shockwaves' = update_shockwaves(shockwaves)
    /\ UNCHANGED procVars
    /\ UNCHANGED <<time, last_beat_time, prev_amp, prev_bass_energy,
                   last_drop_time, prev_treble_energy, beat_scale,
                   clap_flatten_frames, clap_flatten_total, particles,
                   screen, event, frame>>

InitShockwaves ==
    \E scr \in Screens : ConstructedOn([kind |-> "mixed", len |-> ShortLen], scr)

NextShockwaves == TriggerShockwave \/ UpdateShockwaves

SpecShockwaves == InitShockwaves /\ [][NextShockwaves]_vars

---------------------------------------------------------------------------
(* The detectors called on their own, in any order, on any spectrum *)

\* Frames that pass between two detector calls
TickSteps == {11, 43}

\* The clock up to which detector calls are followed
MaxDetTime == 54

\* The spectra passed: None, and those of a full window that is quiet, has
\* bass, has treble
DetSpectra ==
    {NoSpectrum}
    \cup {[none |-> FALSE, shape |-> sh, nf |-> MaxNumFrames] :
            sh \in {DbShape(-80, 0, -80, -80, 0), DbShape(-40, 0, -80, -80, 0),
                    DbShape(-80, 0, -80, 0, 0)}}

\* A chunk get_spectrum turns into the spectrum sp
ChunkOf(sp) ==
    IF sp.none THEN NoChunk ELSE [none |-> FALSE, start |-> 0, len |-> chunk_size]

\* self.time += dt, k times
Tick ==
    /\ \E k \in TickSteps : time + k <= MaxDetTime /\ time' = time + k
    /\ UNCHANGED procVars
    /\ UNCHANGED <<last_beat_time, prev_amp, prev_bass_energy, last_drop_time,
                   prev_treble_energy, beat_scale, clap_flatten_frames,
                   clap_flatten_total, particles, shockwaves, screen, event,
                   frame>>

\* detect_beat(amp, dt, spectrum)
DetectBeat ==
    \E sp \in DetSpectra :
       LET b == detect_beat(sp, prev_amp, time, last_beat_time, FALSE)
       IN /\ prev_amp' = b.prev_amp
          /\ last_beat_time' = b.last_beat_time
          /\ last_chunk' = ChunkOf(sp)
          /\ event' = Event("detect_beat", 0)
          /\ frame' = [NoFrame EXCEPT !.spec_none = sp.none, !.shape = sp.shape,
                                      !.beat = b.beat]
          /\ UNCHANGED <<audio_kind, audio_len, current_position, time,
                         prev_bass_energy, last_drop_time, prev_treble_energy,
                         beat_scale, clap_flatten_frames, clap_flatten_total,
                         particles, shockwaves, screen>>

\* detect_bass_drop(spectrum): len(spectrum) raises TypeError on None, before
\* anything is stored
DetectBassDrop ==
    \E sp \in DetSpectra, rounding \in Roundings(time - last_drop_time) :
       LET d == detect_bass_drop(sp, prev_bass_energy, time, last_drop_time,
                                 rounding)
       IN /\ prev_bass_energy' = IF sp.none THEN prev_bass_energy
                                 ELSE d.prev_bass_energy
          /\ last_drop_time' = IF sp.none THEN last_drop_time
                               ELSE d.last_drop_time
          /\ last_chunk' = ChunkOf(sp)
          /\ event' = Event("detect_bass_drop", 0)
          /\ frame' = [NoFrame EXCEPT
                         !.spec_none = sp.none, !.shape = sp.shape,
                         !.raised = IF sp.none THEN "detect_bass_drop" ELSE "none",
                         !.drop = ~sp.none /\ d.drop]
          /\ UNCHANGED <<audio_kind, audio_len, current_position, time,
                         prev_amp, last_beat_time, prev_treble_energy,
                         beat_scale, clap_flatten_frames, clap_flatten_total,
                         particles, shockwaves, screen>>

\* detect_treble_burst(spectrum)
DetectTrebleBurst ==
    \E sp \in DetSpectra :
       LET tb == detect_treble_burst(sp, prev_treble_energy)
       IN /\ prev_treble_energy' = tb.prev_treble_energy
          /\ last_chunk' = ChunkOf(sp)
          /\ event' = Event("detect_treble_burst", 0)
          /\ frame' = [NoFrame EXCEPT !.spec_none = sp.none, !.shape = sp.shape,
                                      !.burst = tb.burst]
          /\ UNCHANGED <<audio_kind, audio_len, current_position, time,
                         prev_amp, last_beat_time, prev_bass_energy,
                         last_drop_time, beat_scale, clap_flatten_frames,
                         clap_flatten_total, particles, shockwaves, screen>>

NextDetectors == Tick \/ DetectBeat \/ DetectBassDrop \/ DetectTrebleBurst

InitDetectors == ConstructedOn([kind |-> "mixed", len |-> ShortLen], Window)

SpecDetectors == InitDetectors /\ [][NextDetectors]_vars

---------------------------------------------------------------------------
(* Main: files dropped while a track is being visualised *)

\* The tracks dropped
LoadTracks ==
    {tr \in Tracks : tr.kind \in {"empty", "beat", "treble", "mixed"}}

\* Faulty variant of LoadFails: the particles of the running Visualizer are
\* dropped
LoadFails_clears_particles ==
    /\ event' = Event("load_failed", time)
    /\ particles' = <<>>
    /\ UNCHANGED procVars
    /\ UNCHANGED <<time, last_beat_time, prev_amp, prev_bass_energy,
                   last_drop_time, prev_treble_energy, beat_scale,
                   clap_flatten_frames, clap_flatten_total, shockwaves,
                   screen, frame>>

\* DROPFILE, load_audio returns False (or raises): nothing is assigned
LoadFails ==
    /\ event' = Event("load_failed", time)
    /\ UNCHANGED procVars
    /\ UNCHANGED <<time, last_beat_time, prev_amp, prev_bass_energy,
                   last_drop_time, prev_treble_energy, beat_scale,
                   clap_flatten_frames, clap_flatten_total, particles,
                   shockwaves, screen, frame>>

\* DROPFILE, load_audio returns True: audio_processor and visualizer are
\* assigned new objects, built as Constructed describes
LoadTrack ==
    \E track \in LoadTracks :
       /\ event' = Event("load_ok", time)
       /\ audio_kind' = track.kind
       /\ audio_len' = track.len
       /\ current_position' = 0
       /\ last_chunk' = NoChunk
       /\ time' = 0
       /\ last_beat_time' = 0
       /\ prev_amp' = 0
       /\ prev_bass_energy' = 0
       /\ last_drop_time' = 0
       /\ prev_treble_energy' = 0
       /\ beat_scale' = Scale
       /\ clap_flatten_frames' = 0
       /\ clap_flatten_total' = 0
       /\ particles' = <<>>
       /\ shockwaves' = <<>>
       /\ frame' = NoFrame
       /\ UNCHANGED screen

InitLoad == \E track \in LoadTracks : ConstructedOn(track, Window)

NextLoad == Update \/ LoadTrack \/ LoadFails

SpecLoad == InitLoad /\ [][NextLoad]_vars

---------------------------------------------------------------------------
(* Claims *)

Triggered(fr) == fr.clap \/ fr.beat \/ fr.beat_again \/ fr.drop \/ fr.burst

\* Particles of a kind that the latest frame added (integrated once since)
Added(type) ==
    Cardinality({i \in 1..Len(particles) :
                    particles[i].type = type /\ particles[i].age = 1})

\* The spectrum get_spectrum returned in the latest frame
LastSpectrum == get_spectrum(last_chunk, frame.shape)

\* C1: update is total over missing audio data: in every frame whose
\* waveform or spectrum is None, update completes without raising, no
\* detector triggers, and the shockwaves and particles are still integrated.
C1_UpdateTotalOnMissingAudio ==
    (time > 0 /\ (frame.waveform.none \/ frame.spec_none)) =>
        /\ frame.raised = "none"
        /\ ~Triggered(frame)
        /\ frame.integrated

\* C2: in every frame in which a beat is detected, update adds between 24 and
\* 40 normal particles and between 3 and 6 orbit particles.
C2_BeatSpawnsParticles ==
    frame.beat =>
        /\ frame.beat_normal \in 24..40
        /\ frame.beat_orbit \in 3..6
        /\ Added("orbit") \in 3..6

\* C3: on a freshly constructed Visualizer (no beat reported yet), a frame
\* whose bass-band mean rises by 0.25 reports a beat, whatever the
\* index of the frame; and a beat is never reported within the 10 frames
\* after a beat.
C3_BeatAtEveryFrameIndex ==
    [][ /\ (last_beat_time = 0 /\ FSub(prev_amp', prev_amp) = 250)
            => frame'.beat
        /\ (frame'.beat /\ last_beat_time > 0) => time' - last_beat_time > 10
      ]_vars

\* C4: two consecutive bass-drop triggers are at least 42 frames apart and
\* two consecutive beat triggers at least 11 frames apart.
C4_TriggerSpacing ==
    /\ (frame.drop /\ frame.drop_gap > 0) => frame.drop_gap >= 42
    /\ (frame.beat /\ frame.beat_gap > 0) => frame.beat_gap >= 11

\* C4 witness: a bass drop 42 frames after the previous one, in a frame that
\* also reports a beat 11 frames after the previous beat.
C4_Witness ==
    /\ frame.drop /\ frame.drop_gap = 42
    /\ frame.beat /\ frame.beat_gap = 11

\* C5 as stated: on a buffer of at least chunk_size samples every
\* get_waveform call returns exactly chunk_size samples.
C5_AlwaysFullWindow ==
    (audio_len >= chunk_size /\ ~last_chunk.none) => last_chunk.len = chunk_size

\* C5 amended: on a buffer of at least chunk_size samples a get_waveform call
\* made with the cursor at p returns exactly chunk_size samples when
\* p + chunk_size <= len, and otherwise the tail of len - p samples, which is
\* at least 1 and fewer than chunk_size.
C5_FullWindowOrTail ==
    (audio_len >= chunk_size /\ ~last_chunk.none) =>
        IF last_chunk.start + chunk_size <= audio_len
        THEN last_chunk.len = chunk_size
        ELSE /\ last_chunk.len = audio_len - last_chunk.start
             /\ last_chunk.len \in 1..(chunk_size - 1)

\* C5 witness: on a buffer of at least chunk_size samples a call made at a
\* cursor other than 0 returned a tail.
C5_Witness ==
    /\ audio_len >= chunk_size
    /\ ~last_chunk.none
    /\ last_chunk.start > 0
    /\ last_chunk.len < chunk_size

\* C6: every get_waveform call advances the cursor by hop_length and resets
\* it to 0 when the advanced cursor reaches or exceeds the buffer length; on a
\* non-empty buffer the cursor is then a multiple of hop_length within
\* 0..len-1 and the call returned a non-empty window, never None.
C6_CursorAdvancesAndWraps ==
    [][ /\ current_position' =
             IF current_position + hop_length >= audio_len
             THEN 0 ELSE current_position + hop_length
        /\ audio_len > 0 =>
             /\ current_position' % hop_length = 0
             /\ current_position' \in 0..(audio_len - 1)
             /\ ~last_chunk'.none
             /\ last_chunk'.len > 0
      ]_vars

\* C6 witness: a call made at a cursor other than 0 wrapped the cursor to 0,
\* on a buffer whose length is a multiple of hop_length.
C6_Witness ==
    /\ audio_len > chunk_size
    /\ audio_len % hop_length = 0
    /\ ~last_chunk.none
    /\ last_chunk.start = audio_len - hop_length
    /\ current_position = 0

\* C7: for a non-empty window get_spectrum returns exactly 128 values, each
\* within [0,1]; a flat decibel matrix gives the all-zero spectrum, never NaN.
C7_SpectrumInUnitRange ==
    (time > 0 /\ ~LastSpectrum.none) =>
        /\ Len(Bins(LastSpectrum)) = target_length
        /\ \A i \in 1..Len(Bins(LastSpectrum)) :
              /\ ~IsNaN(Bins(LastSpectrum)[i])
              /\ Bins(LastSpectrum)[i] \in 0..Scale

\* C8: on the 3 s all-zero buffer no frame of the 180 triggers a beat, a bass
\* drop, a treble burst or a clap, and the particles and the shockwaves are
\* empty after every frame.
C8_SilenceTriggersNothing ==
    audio_kind = "silent" =>
        /\ ~Triggered(frame)
        /\ particles = <<>>
        /\ shockwaves = <<>>

\* C8 witness: the 180th frame on the silent buffer.
C8_Witness == audio_kind = "silent" /\ time = SilentFrames /\ frame.amp = 0

\* C9: a frame with a bass drop creates exactly one shockwave, of radius 80,
\* and adds 40 to 64 normal and 6 to 10 comet particles; a frame without one
\* creates no shockwave and no comet, and its blob is drawn at drop scale 1.0.
C9_DropEffects ==
    time > 0 =>
        IF frame.drop
        THEN /\ Len(frame.new_shockwaves) = 1
             /\ frame.new_shockwaves[1].radius = 80
             /\ Cardinality({i \in 1..Len(shockwaves) :
                               shockwaves[i].radius = 80 + 18}) = 1
             /\ frame.drop_normal \in 40..64
             /\ frame.drop_comet \in 6..10
             /\ Added("normal") \in 40..64
             /\ Added("comet") \in 6..10
        ELSE /\ frame.new_shockwaves = <<>>
             /\ frame.drop_comet = 0
             /\ frame.integrated =>
                  /\ \A i \in 1..Len(shockwaves) : shockwaves[i].radius # 80 + 18
                  /\ Added("comet") = 0
             /\ frame.blob_drawn => frame.drop_scale = Scale

\* C9 witness: the second bass drop of a run, in a frame that added 64 normal
\* and 10 comet particles and left its shockwave active.
C9_Witness ==
    /\ frame.drop
    /\ frame.drop_gap > 0
    /\ Added("normal") = 64
    /\ Added("comet") = 10
    /\ Len(shockwaves) = 1

\* C10: an update_particles call keeps, with its life reduced by dt, every
\* particle whose reduced life is > 0 and removes every other one, so no
\* particle with life <= 0 remains; a normal particle spawned with life 1.0 s
\* is kept by its first 59 integration steps and removed by its 60th.
C10_ParticleLifecycle ==
    [][ Len(particles') <= Len(particles) =>
          /\ particles' = SelectSeq(
                [i \in 1..Len(particles) |->
                    [particles[i] EXCEPT !.life = @ - DtLife, !.age = @ + 1]],
                LAMBDA p : p.life > 0)
          /\ \A i \in 1..Len(particles') : particles'[i].life > 0
          /\ \A i \in 1..Len(particles) :
                (particles[i].type = "normal"
                 /\ particles[i].life + particles[i].age * DtLife = LifeScale)
                => /\ particles[i].age < 60
                   /\ (particles[i].age = 59) =
                        (\A j \in 1..Len(particles') :
                            ~(particles'[j].type = "normal"
                              /\ particles'[j].life + particles'[j].age * DtLife
                                    = LifeScale))
      ]_vars

\* C10 witness: a normal particle spawned with life 1.0 s has been integrated
\* 59 times and is still in the collection, next to a particle of another kind.
C10_Witness ==
    /\ \E i \in 1..Len(particles) :
          /\ particles[i].type = "normal"
          /\ particles[i].age = 59
          /\ particles[i].life = DtLife
    /\ \E i \in 1..Len(particles) : particles[i].type = "orbit"

\* C11: detect_clap has no cooldown and no edge condition: every frame whose
\* waveform has a mean absolute amplitude > 0.10 and whose spectrum has a
\* top-30% mean > 0.35 reports a clap, whatever the frames before it did.
C11_ClapEveryFrame ==
    (/\ time > 0
     /\ FGt(frame.amp, 100)
     /\ ~LastSpectrum.none
     /\ FGt(HighFreqEnergy(LastSpectrum), 350))
        => frame.clap

\* C11 witness: the latest of 20 consecutive frames that each reported a clap.
C11_Witness ==
    /\ frame.clap
    /\ frame.clap_run = ClapRunCap
    /\ frame.amp = 150
    /\ HighFreqEnergy(LastSpectrum) > 350

\* C12: a frame takes one window from get_waveform, the spectrum of the frame
\* is computed from that window, and the cursor has advanced by one hop
\* (wrapping to 0 at the end of the buffer).
C12_OneWindowPerFrame ==
    time > 0 =>
        /\ last_chunk = frame.waveform
        /\ current_position =
              IF frame.waveform.start + hop_length >= audio_len
              THEN 0 ELSE frame.waveform.start + hop_length

C15_ClapFlattenCountdown ==
    /\ 0 <= clap_flatten_frames
    /\ clap_flatten_frames <= clap_flatten_total
    /\ clap_flatten_total <= 12
    /\ frame.clap => (clap_flatten_frames = 12 /\ clap_flatten_total = 12)
    /\ clap_flatten_frames = Max2(0, 12 - frame.since_clap)

\* C15 witness: the 12th frame after a clap, the countdown has just reached 0.
C15_Witness ==
    /\ frame.since_clap = 12
    /\ clap_flatten_frames = 0
    /\ clap_flatten_total = 12

C19_SuppressedRiseIsLost ==
    [][ /\ (frame.beat_lost /\ frame'.bass_energy = frame.bass_energy)
              => ~frame'.beat
        /\ (frame.drop_lost /\ frame'.bass_energy = frame.bass_energy)
              => ~frame'.drop
        /\ frame'.beat
              => FGt(FSub(frame'.bass_energy, frame.bass_energy), beat_threshold)
      ]_vars

\* C19 witness: a rise was refused by both cooldowns, the energy has stayed
\* flat since, both cooldowns have expired and the frame reports nothing.
C19_Witness ==
    /\ frame.beat_lost
    /\ frame.drop_lost
    /\ time - last_beat_time >= 11
    /\ time - last_drop_time >= 43
    /\ ~frame.beat
    /\ ~frame.drop

\* C20: after 270 consecutive completed frames without beat, drop or burst
\* the particle collection is empty, after 43 the shockwave collection is.
C20_EntitiesDrain ==
    /\ frame.quiet >= 270 => particles = <<>>
    /\ frame.quiet >= 43 => shockwaves = <<>>

\* C20 witness: on the fullscreen display, the 43rd quiet frame after a bass
\* drop: the shockwave is gone, particles of the drop are still alive.
C20_Witness ==
    /\ screen.height = fullscreen_height
    /\ last_drop_time > 0
    /\ frame.quiet = 43
    /\ shockwaves = <<>>
    /\ particles # <<>>


\* C14: after a call of detect_beat, detect_bass_drop or detect_treble_burst
\* the stored previous energy is that of the spectrum passed, measured over
\* the detector's own band and taken as 0 for an absent or empty spectrum,
\* and the call has not raised.
C14_PreviousEnergyFollowsCall ==
    LET sp == LastSpectrum
        bass == IF Absent(sp) THEN 0 ELSE Energies(sp).bass
        treble == IF Absent(sp) THEN 0 ELSE Energies(sp).treble
    IN /\ event.name = "detect_beat" => prev_amp = bass
       /\ event.name = "detect_bass_drop" =>
             frame.raised = "none" /\ prev_bass_energy = bass
       /\ event.name = "detect_treble_burst" => prev_treble_energy = treble

\* C16, as stated: after a step of update_shockwaves the width of every
\* shockwave kept is 0.97 times its width before, or 2 if that is less than 2.
C16_WidthTimes097 ==
    [][(shockwaves # <<>> /\ Len(shockwaves') = Len(shockwaves)) =>
          \A i \in 1..Len(shockwaves) :
             shockwaves'[i].width * 100 =
                 (IF shockwaves[i].width * 97 < 200
                  THEN 200 ELSE shockwaves[i].width * 97)]_vars

\* C16: a step of update_shockwaves adds 18 to each radius, multiplies each
\* alpha by 0.93, sets each width to 0.97 times the width truncated to an
\* integer and no less than 2, keeps the order, and removes exactly the
\* shockwaves whose new radius exceeds max_radius or whose new alpha is
\* below 8.
C16_ShockwaveStep ==
    [][(shockwaves # <<>> /\ Len(shockwaves') <= Len(shockwaves)) =>
          LET stepped ==
                  [i \in 1..Len(shockwaves) |->
                      [radius |-> shockwaves[i].radius + 18,
                       alpha |-> (shockwaves[i].alpha * 93) \div 100,
                       width |-> IF (shockwaves[i].width * 97) \div 100 < 2
                                 THEN 2
                                 ELSE (shockwaves[i].width * 97) \div 100,
                       max_radius |-> shockwaves[i].max_radius]]
              Kept(s) == s.radius <= s.max_radius /\ s.alpha >= 8 * Scale
          IN /\ shockwaves' = SelectSeq(stepped, Kept)
             /\ \A i \in 1..Len(shockwaves') :
                   /\ shockwaves'[i].width >= 2
                   /\ shockwaves'[i].radius <= shockwaves'[i].max_radius
                   /\ shockwaves'[i].alpha >= 8 * Scale]_vars

\* Two shockwaves of different age, the older with its width at the floor of
\* 2 and one step away from fading below alpha 8 inside max_radius
C16_Witness ==
    /\ Len(shockwaves) = 2
    /\ shockwaves[1].width = 2
    /\ shockwaves[1].radius + 18 <= shockwaves[1].max_radius
    /\ (shockwaves[1].alpha * 93) \div 100 < 8 * Scale
    /\ shockwaves[2].radius < shockwaves[1].radius

\* C17: a successful load replaces the engine by a constructed one (cursor,
\* clock, detector history and counters zero, beat_scale 1, no particles, no
\* shockwaves); a failed load changes nothing of the running engine; a frame
\* advances the clock by one frame, keeps the track, moves each detector
\* time only to the current clock, and leaves each previous energy as it was
\* or at the energy of the frame's spectrum.
C17_LoadAndFrame ==
    [][/\ event'.name = "load_ok" =>
            /\ current_position' = 0 /\ time' = 0
            /\ last_beat_time' = 0 /\ last_drop_time' = 0
            /\ prev_amp' = 0 /\ prev_bass_energy' = 0
            /\ prev_treble_energy' = 0
            /\ beat_scale' = Scale
            /\ clap_flatten_frames' = 0 /\ clap_flatten_total' = 0
            /\ particles' = <<>> /\ shockwaves' = <<>>
            /\ screen' = screen
       /\ event'.name = "load_failed" =>
            /\ UNCHANGED procVars
            /\ UNCHANGED <<time, last_beat_time, prev_amp, prev_bass_energy,
                           last_drop_time, prev_treble_energy, beat_scale,
                           clap_flatten_frames, clap_flatten_total,
                           particles, shockwaves, screen>>
       /\ event'.name = "update" =>
            /\ time' = time + 1
            /\ UNCHANGED <<audio_kind, audio_len, screen>>
            /\ last_beat_time' \in {last_beat_time, time'}
            /\ last_drop_time' \in {last_drop_time, time'}
            /\ prev_amp' = frame'.bass_energy
            /\ prev_bass_energy' \in {prev_bass_energy, frame'.bass_energy}
            /\ prev_treble_energy' \in
                  {prev_treble_energy, TrebleEnergy(LastSpectrum')}]_vars

\* A track loaded over an engine that had run frames and held particles
C17_Witness ==
    /\ event.name = "load_ok"
    /\ event.clock > 10
    /\ time = 0
    /\ particles = <<>>
    /\ audio_kind = "treble"

===========================================================================
